---- MODULE Spec2Model ----
(***************************************************************************)
(* ircat: IRC colour codes to ANSI colour codes.                           *)
(*   src/src/filter.rs  BufFilter (the buffered filter adapter)            *)
(*   src/src/lib.rs     ircat, IRCatFilter (the state machine), the table  *)
(* Bytes are their numeric values (0x03 = 3, '\n' = 10, ',' = 44, ...).    *)
(***************************************************************************)
EXTENDS Integers, Sequences, FiniteSets, TLC

\* ------------------------------------------------------------------ bounds
\* longest input stream of the end-to-end specification
MaxLen == 3
\* longest input of the filter-only specification
MaxFilterLen == 4
\* largest destination slice the copy loop hands to read
MaxBuf == 2
\* most I/O errors the source and the sink inject in one run
MaxFaults == 1
\* usize::MAX, the machine word scaled down (above every buffer length reached)
UsizeMax == 63

\* ------------------------------------------------------------------- bytes
ETX == 3
NL == 10
COMMA == 44
ESC == 27
Digit0 == 48

\* the bytes inputs are drawn from: introducer, newline, comma, '1', '6', 'a'
Alphabet == {ETX, NL, COMMA, 49, 54, 97}

\* the bytes the filter-only specifications draw from: the same and '9'
FilterAlphabet == Alphabet \cup {57}

IsDigit(c) == c >= 48 /\ c <= 57

Min(a, b) == IF a < b THEN a ELSE b

Take(s, n) == SubSeq(s, 1, n)

Drop(s, n) == SubSeq(s, n + 1, Len(s))

\* all sequences over S of length at most n
SeqsUpTo(S, n) == UNION {[1..k -> S] : k \in 0..n}

\* ------------------------------------------------------- the colour table
\* b"\x1b[39m\x1b[49m"
Reset == <<27, 91, 51, 57, 109, 27, 91, 52, 57, 109>>

\* the arm `_ => todo!(...)`: the lookup panics for these
MissingColor(color) == color \notin 0..15

lookup_irc_color(color) ==
    CASE color = 0 -> <<55>>
      [] color = 1 -> <<56, 59, 53, 59, 50, 51, 53>>
      [] color = 2 -> <<52>>
      [] color = 3 -> <<50>>
      [] color = 4 -> <<49>>
      [] color = 5 -> <<56, 59, 53, 59, 53, 50>>
      [] color = 6 -> <<53>>
      [] color = 7 -> <<56, 59, 53, 59, 50, 48, 57>>
      [] color = 8 -> <<51>>
      [] color = 9 -> <<56, 59, 53, 59, 52, 55>>
      [] color = 10 -> <<54>>
      [] color = 11 -> <<54>>
      [] color = 12 -> <<56, 59, 53, 59, 53, 54>>
      [] color = 13 -> <<56, 59, 53, 59, 50, 48, 48>>
      [] color = 14 -> <<56, 59, 53, 59, 50, 52, 49>>
      [] color = 15 -> <<55>>
      [] OTHER -> <<>>

\* output_color writing '3' whatever `foreground` is
output_color_always_fg(f, foreground, color) ==
    IF color \notin 0..15
    THEN [f EXCEPT !.panic = TRUE]
    ELSE [f EXCEPT !.output = @ \o <<27, 91, 51>> \o lookup_irc_color(color) \o <<109>>]

\* the filter while it runs: its two fields, the output vector it appends to,
\* and whether it has panicked
output_color(f, foreground, color) ==
    IF MissingColor(color)
    THEN [f EXCEPT !.panic = TRUE]
    ELSE [f EXCEPT !.output = @ \o <<ESC, 91>> \o <<IF foreground THEN 51 ELSE 52>>
                                \o lookup_irc_color(color) \o <<109>>]

\* ------------------------------------------------------ the state machine
St(tag, d) == [tag |-> tag, d |-> d]

InitState == St("Normal", 0)

Push(f, c) == [f EXCEPT !.output = Append(@, c)]

Goto(f, s) == [f EXCEPT !.state = s]

\* the Normal arm with the newline's push inside `if self.in_color`
NormalArmPushInsideIf(f, c) ==
    IF c = ETX THEN [f EXCEPT !.state = [tag |-> "Start", d |-> 0]]
    ELSE IF c = NL
         THEN IF f.in_color
              THEN [f EXCEPT !.output = (@ \o Reset) \o <<c>>, !.in_color = FALSE]
              ELSE f
         ELSE [f EXCEPT !.output = Append(@, c)]

NormalArm(f, c) ==
    IF c = ETX THEN Goto(f, St("Start", 0))
    ELSE IF c = NL
         THEN IF f.in_color
              THEN Push([f EXCEPT !.output = @ \o Reset, !.in_color = FALSE], c)
              ELSE Push(f, c)
         ELSE Push(f, c)

\* the Start arm without `if self.in_color` around the reset
StartArmAlwaysReset(f, c) ==
    IF IsDigit(c)
    THEN [f EXCEPT !.in_color = TRUE, !.state = [tag |-> "Foreground1", d |-> c - Digit0]]
    ELSE [f EXCEPT !.in_color = FALSE, !.output = (@ \o Reset) \o <<c>>,
                   !.state = [tag |-> "Normal", d |-> 0]]

StartArm(f, c) ==
    IF IsDigit(c)
    THEN Goto([f EXCEPT !.in_color = TRUE], St("Foreground1", c - Digit0))
    ELSE Goto(Push(IF f.in_color
                   THEN [f EXCEPT !.in_color = FALSE, !.output = @ \o Reset]
                   ELSE f, c),
              InitState)

Foreground1Arm(f, c) ==
    IF IsDigit(c)
    THEN Goto(output_color(f, TRUE, f.state.d * 10 + c - Digit0), St("Foreground2", 0))
    ELSE IF c = COMMA
         THEN Goto(output_color(f, TRUE, f.state.d), St("Comma", 0))
         ELSE Goto(Push(output_color(f, TRUE, f.state.d), c), InitState)

\* the Foreground2 arm taking a third digit as part of the number
Foreground2ArmThirdDigit(f, c) ==
    IF c = COMMA THEN [f EXCEPT !.state = [tag |-> "Comma", d |-> 0]]
    ELSE IF IsDigit(c) THEN f
    ELSE [f EXCEPT !.output = Append(@, c), !.state = [tag |-> "Normal", d |-> 0]]

Foreground2Arm(f, c) ==
    IF c = COMMA THEN Goto(f, St("Comma", 0))
    ELSE Goto(Push(f, c), InitState)

\* the Comma arm without the push of the literal comma
CommaArmNoComma(f, c) ==
    IF IsDigit(c) THEN [f EXCEPT !.state = [tag |-> "Background1", d |-> c - Digit0]]
    ELSE [f EXCEPT !.output = Append(@, c), !.state = [tag |-> "Normal", d |-> 0]]

CommaArm(f, c) ==
    IF IsDigit(c) THEN Goto(f, St("Background1", c - Digit0))
    ELSE Goto(Push(Push(f, COMMA), c), InitState)

\* the Background1 arm starting a new sequence on an introducer
Background1ArmRestart(f, c) ==
    IF IsDigit(c)
    THEN [output_color(f, FALSE, f.state.d * 10 + c - Digit0)
            EXCEPT !.state = [tag |-> "Normal", d |-> 0]]
    ELSE IF c = ETX
         THEN [output_color(f, FALSE, f.state.d) EXCEPT !.state = [tag |-> "Start", d |-> 0]]
         ELSE [output_color(f, FALSE, f.state.d)
                 EXCEPT !.output = Append(@, c), !.state = [tag |-> "Normal", d |-> 0]]

Background1Arm(f, c) ==
    IF IsDigit(c)
    THEN Goto(output_color(f, FALSE, f.state.d * 10 + c - Digit0), InitState)
    ELSE Goto(Push(output_color(f, FALSE, f.state.d), c), InitState)

\* one iteration of `for c in input`
FilterStep(f, c) ==
    CASE f.state.tag = "Normal" -> NormalArm(f, c)
      [] f.state.tag = "Start" -> StartArm(f, c)
      [] f.state.tag = "Foreground1" -> Foreground1Arm(f, c)
      [] f.state.tag = "Foreground2" -> Foreground2Arm(f, c)
      [] f.state.tag = "Comma" -> CommaArm(f, c)
      [] f.state.tag = "Background1" -> Background1Arm(f, c)

RECURSIVE FilterLoop(_, _)
FilterLoop(f, in) ==
    IF f.panic \/ in = <<>> THEN f
    ELSE FilterLoop(FilterStep(f, Head(in)), Tail(in))

\* filter starting every call in Normal instead of the state the last call left
FilterForgetsState(s, ic, in, out) ==
    FilterLoop([state |-> [tag |-> "Normal", d |-> 0], in_color |-> ic, output |-> out,
                panic |-> FALSE], in)

\* filter writing the reset sequence when called with no input inside a span
FilterFlushesAtEnd(s, ic, in, out) ==
    IF in = <<>> /\ ic
    THEN [state |-> s, in_color |-> FALSE, output |-> out \o Reset, panic |-> FALSE]
    ELSE FilterLoop([state |-> s, in_color |-> ic, output |-> out, panic |-> FALSE], in)

\* IRCatFilter::filter(&mut self, input, output)
Filter(s, ic, in, out) ==
    FilterLoop([state |-> s, in_color |-> ic, output |-> out, panic |-> FALSE], in)

\* ------------------------------------------------------------ the adapter
VARIABLES
    input,      \* the whole logical byte stream (never changes)
    inner,      \* BufFilter.inner: the bytes the underlying source still holds
    buffer,     \* BufFilter.buffer
    pos,        \* BufFilter.pos
    state,      \* BufFilter.filter.state
    in_color,   \* BufFilter.filter.in_color
    sink,       \* the bytes the writer has accepted
    cbuf,       \* io::copy: bytes read and not yet written
    cap,        \* io::copy: the length of the slice it hands to read
    count,      \* io::copy: the running total it returns
    pc,         \* "read" | "write" | "done" (ircat), "filter" (filter alone)
    result,     \* "none" | "Ok" | "Err" | "panic"
    error,      \* the error ircat returned, "none" if none
    faults,     \* I/O errors injected (and overflowing consume calls made) so far
    obs         \* what the last call did (history, read by the properties only)

vars == <<input, inner, buffer, pos, state, in_color, sink, cbuf, cap, count,
          pc, result, error, faults, obs>>

\* std::io::ErrorKind values the collaborators fail with
ErrorKinds == {"Interrupted", "Other"}

\* the adapter's fields as one value
Adapter == [buffer |-> buffer, pos |-> pos, state |-> state, in_color |-> in_color,
            inner |-> inner]

\* what the underlying source's fill_buf can answer: a non-empty chunk of what it
\* holds (an empty one only at end of stream), or an error
FillOutcomes(a, canFail) ==
    {[kind |-> "chunk", n |-> k, e |-> "none"] :
        k \in (IF a.inner = <<>> THEN {0} ELSE 1..Len(a.inner))}
    \cup (IF canFail THEN {[kind |-> "err", n |-> 0, e |-> e] : e \in ErrorKinds} ELSE {})

\* `self.pos + amt` exceeds usize::MAX: a debug build panics on the addition, a
\* release build wraps
ConsumeOverflows(a, amt) == a.pos + amt > UsizeMax

\* BufFilter::consume (the addition wrapping, as in a release build)
Consume(a, amt) ==
    [a EXCEPT !.pos = Min((a.pos + amt) % (UsizeMax + 1), Len(a.buffer))]

\* fill_buf refilling whether or not unconsumed bytes remain
FillBufAlways(a, o) ==
    IF o.kind = "err"
    THEN [a |-> [a EXCEPT !.buffer = <<>>], ret |-> "err", e |-> o.e, chunk |-> -1,
          asked |-> TRUE]
    ELSE LET f == Filter(a.state, a.in_color, Take(a.inner, o.n), <<>>)
         IN IF f.panic
            THEN [a |-> [a EXCEPT !.buffer = <<>>], ret |-> "panic", e |-> "none",
                  chunk |-> o.n, asked |-> TRUE]
            ELSE [a |-> [buffer |-> f.output, pos |-> 0, state |-> f.state,
                         in_color |-> f.in_color, inner |-> Drop(a.inner, o.n)],
                  ret |-> "ok", e |-> "none", chunk |-> o.n, asked |-> TRUE]

\* fill_buf without `self.buffer.clear()`: the filter appends to the old bytes
FillBufNoClear(a, o) ==
    IF a.pos >= Len(a.buffer)
    THEN IF o.kind = "err"
         THEN [a |-> a, ret |-> "err", e |-> o.e, chunk |-> -1, asked |-> TRUE]
         ELSE LET f == Filter(a.state, a.in_color, Take(a.inner, o.n), a.buffer)
              IN IF f.panic
                 THEN [a |-> a, ret |-> "panic", e |-> "none", chunk |-> o.n,
                       asked |-> TRUE]
                 ELSE [a |-> [buffer |-> f.output, pos |-> 0, state |-> f.state,
                              in_color |-> f.in_color, inner |-> Drop(a.inner, o.n)],
                       ret |-> "ok", e |-> "none", chunk |-> o.n, asked |-> TRUE]
    ELSE [a |-> a, ret |-> "ok", e |-> "none", chunk |-> -1, asked |-> FALSE]

\* BufFilter::fill_buf, the underlying source answering o when asked.
\* ret: "ok" | "err" | "panic"; chunk: length of the chunk the source exposed, -1
\* when it was not asked or failed.
FillBuf(a, o) ==
    IF a.pos >= Len(a.buffer)
    THEN LET cleared == [a EXCEPT !.buffer = <<>>] IN
         IF o.kind = "err"
         THEN [a |-> cleared, ret |-> "err", e |-> o.e, chunk |-> -1, asked |-> TRUE]
         ELSE LET f == Filter(a.state, a.in_color, Take(a.inner, o.n), <<>>)
              IN IF f.panic
                 THEN [a |-> cleared, ret |-> "panic", e |-> "none", chunk |-> o.n,
                       asked |-> TRUE]
                 ELSE [a |-> [buffer |-> f.output, pos |-> 0, state |-> f.state,
                              in_color |-> f.in_color, inner |-> Drop(a.inner, o.n)],
                       ret |-> "ok", e |-> "none", chunk |-> o.n, asked |-> TRUE]
    ELSE [a |-> a, ret |-> "ok", e |-> "none", chunk |-> -1, asked |-> FALSE]

\* BufFilter::read into a slice of length n. data: the bytes the caller receives.
\* `self.buffer.len() - self.pos` with pos > len: a debug build panics on the
\* subtraction; a release build wraps, takes nread = n and panics on the slice
\* self.buffer[pos..pos + nread]. Either way the call panics.
Read(a, n, o) ==
    IF a.pos > Len(a.buffer)
    THEN [a |-> a, ret |-> "panic", e |-> "none", data |-> <<>>, chunk |-> -1,
          asked |-> FALSE]
    ELSE LET len == Len(a.buffer) - a.pos
             nread == IF len # 0 THEN Min(len, n) ELSE 0
             first == SubSeq(a.buffer, a.pos + 1, a.pos + nread)
             a1 == IF len # 0 THEN Consume(a, nread) ELSE a
         IN IF nread # n
            THEN LET r == FillBuf(a1, o) IN
                 IF r.ret # "ok"
                 THEN [a |-> r.a, ret |-> r.ret, e |-> r.e, data |-> <<>>,
                       chunk |-> r.chunk, asked |-> r.asked]
                 ELSE LET len2 == Min(Len(r.a.buffer), n - nread) IN
                      IF r.a.pos + len2 > Len(r.a.buffer)
                      THEN [a |-> r.a, ret |-> "panic", e |-> "none", data |-> <<>>,
                            chunk |-> r.chunk, asked |-> r.asked]
                      ELSE [a |-> Consume(r.a, len2), ret |-> "ok", e |-> "none",
                            data |-> first \o SubSeq(r.a.buffer, r.a.pos + 1, r.a.pos + len2),
                            chunk |-> r.chunk, asked |-> r.asked]
            ELSE [a |-> a1, ret |-> "ok", e |-> "none", data |-> first,
                  chunk |-> -1, asked |-> FALSE]

\* ------------------------------------------------------------- ircat
\* BufFilter::new(reader) and the start of io::copy
Init ==
    /\ input \in SeqsUpTo(Alphabet, MaxLen)
    /\ inner = input
    /\ buffer = <<>>
    /\ pos = 0
    /\ state = InitState
    /\ in_color = FALSE
    /\ sink = <<>>
    /\ cbuf = <<>>
    /\ cap \in 1..MaxBuf
    /\ count = 0
    /\ pc = "read"
    /\ result = "none"
    /\ error = "none"
    /\ faults = 0
    /\ obs = [kind |-> "none"]

SetAdapter(a) ==
    /\ buffer' = a.buffer
    /\ pos' = a.pos
    /\ state' = a.state
    /\ in_color' = a.in_color
    /\ inner' = a.inner

\* the copy loop retrying a read after any error
AfterReadRetryAny(r) ==
    CASE r.ret = "panic" ->
            /\ pc' = "done" /\ result' = "panic" /\ error' = "none"
            /\ UNCHANGED <<cbuf, count>>
      [] r.ret = "err" ->
            /\ pc' = "read" /\ UNCHANGED <<result, error, cbuf, count>>
      [] r.ret = "ok" /\ r.data = <<>> ->
            /\ pc' = "done" /\ result' = "Ok" /\ error' = "none"
            /\ UNCHANGED <<cbuf, count>>
      [] r.ret = "ok" /\ r.data # <<>> ->
            /\ pc' = "write" /\ cbuf' = r.data /\ count' = count + Len(r.data)
            /\ UNCHANGED <<result, error>>

\* the copy loop reading again after a read of zero bytes
AfterReadRetryZero(r) ==
    CASE r.ret = "panic" ->
            /\ pc' = "done" /\ result' = "panic" /\ error' = "none"
            /\ UNCHANGED <<cbuf, count>>
      [] r.ret = "err" /\ r.e = "Interrupted" ->
            /\ pc' = "read" /\ UNCHANGED <<result, error, cbuf, count>>
      [] r.ret = "err" /\ r.e # "Interrupted" ->
            /\ pc' = "done" /\ result' = "Err" /\ error' = r.e
            /\ UNCHANGED <<cbuf, count>>
      [] r.ret = "ok" /\ r.data = <<>> ->
            /\ pc' = "read" /\ UNCHANGED <<result, error, cbuf, count>>
      [] r.ret = "ok" /\ r.data # <<>> ->
            /\ pc' = "write" /\ cbuf' = r.data /\ count' = count + Len(r.data)
            /\ UNCHANGED <<result, error>>

\* what the copy loop does with the outcome of one read
AfterRead(r) ==
    CASE r.ret = "panic" ->
            /\ pc' = "done" /\ result' = "panic" /\ error' = "none"
            /\ UNCHANGED <<cbuf, count>>
      [] r.ret = "err" /\ r.e = "Interrupted" ->
            /\ pc' = "read" /\ UNCHANGED <<result, error, cbuf, count>>
      [] r.ret = "err" /\ r.e # "Interrupted" ->
            /\ pc' = "done" /\ result' = "Err" /\ error' = r.e
            /\ UNCHANGED <<cbuf, count>>
      [] r.ret = "ok" /\ r.data = <<>> ->
            /\ pc' = "done" /\ result' = "Ok" /\ error' = "none"
            /\ UNCHANGED <<cbuf, count>>
      [] r.ret = "ok" /\ r.data # <<>> ->
            /\ pc' = "write" /\ cbuf' = r.data /\ count' = count + Len(r.data)
            /\ UNCHANGED <<result, error>>

\* io::copy: one reader.read(buf) and what the loop does with its outcome
CopyRead ==
    /\ pc = "read"
    /\ \E o \in FillOutcomes(Adapter, faults < MaxFaults) :
         \E r \in {Read(Adapter, cap, o)} :
         /\ (o.kind = "err" => r.asked)
         /\ SetAdapter(r.a)
         /\ AfterRead(r)
         /\ faults' = IF r.ret = "err" THEN faults + 1 ELSE faults
         /\ obs' = [kind |-> "read", ret |-> r.ret, e |-> r.e, n |-> Len(r.data),
                    chunk |-> r.chunk, before |-> Adapter]
    /\ UNCHANGED <<input, sink, cap>>

\* io::copy: writer.write_all(buf), one writer.write(rest) per step: the sink
\* accepts k bytes of what is left (Ok(0) is write_all's WriteZero error) or fails
CopyWrite ==
    /\ pc = "write"
    /\ \/ \E k \in 1..Len(cbuf) :
            /\ sink' = sink \o Take(cbuf, k)
            /\ cbuf' = Drop(cbuf, k)
            /\ pc' = IF k = Len(cbuf) THEN "read" ELSE "write"
            /\ obs' = [kind |-> "write", ret |-> "ok", e |-> "none", n |-> k]
            /\ UNCHANGED <<result, error, faults>>
       \/ /\ faults < MaxFaults
          /\ \E e \in ErrorKinds \cup {"WriteZero"} :
               /\ faults' = faults + 1
               /\ obs' = [kind |-> "write", ret |-> IF e = "WriteZero" THEN "zero" ELSE "err",
                          e |-> e, n |-> 0]
               /\ IF e = "Interrupted"
                  THEN UNCHANGED <<pc, result, error>>
                  ELSE pc' = "done" /\ result' = "Err" /\ error' = e
               /\ UNCHANGED <<sink, cbuf>>
    /\ UNCHANGED <<input, inner, buffer, pos, state, in_color, cap, count>>

Next == CopyRead \/ CopyWrite

Spec == Init /\ [][Next]_vars

\* the copy loop is one thread that keeps running until it returns
SpecLive == Init /\ [][Next]_vars /\ WF_vars(Next)

\* ------------------------------------------------------ the filter alone
\* the decimal digits of colour n written with w digits
Digits(n, w) == IF w = 1 THEN <<Digit0 + n>> ELSE <<Digit0 + (n \div 10), Digit0 + (n % 10)>>

\* the ways a colour number 0..15 is written: (number, digits)
ColorForms == {nw \in (0..15) \X {1, 2} : nw[2] = 1 => nw[1] < 10}

\* the non-digit bytes that follow a colour specification
Payloads == {ETX, NL, COMMA, 97}

\* introducer f , b payload
ColorInput(f, b, p) == <<ETX>> \o Digits(f[1], f[2]) \o <<COMMA>> \o Digits(b[1], b[2]) \o <<p>>

ColorInputs == {ColorInput(f, b, p) : f \in ColorForms, b \in ColorForms, p \in Payloads}

\* the inputs of the unit tests (mod tests)
TestInputs == {
    \* none
    <<102, 111, 111, 32, 98, 97, 114>>,
    \* empty
    <<>>,
    \* newline
    <<3, 50, 98, 108, 117, 101, 10, 110, 111, 110, 101, 10>>,
    \* stop_color
    <<3, 50, 98, 108, 117, 101, 3, 110, 111, 110, 101, 10>>,
    \* two_digit_fg
    <<3, 49, 48, 99, 121, 97, 110>>,
    \* number_following
    <<3, 48, 48, 50, 119, 104, 105, 116, 101>>,
    \* bg
    <<3, 50, 44, 51, 116, 101, 115, 116>>,
    \* bg_two_digit
    <<3, 50, 44, 49, 48, 116, 101, 115, 116>>,
    \* no_fg
    <<3, 44, 50, 105, 110, 118, 97, 108, 105, 100>>,
    \* no_fg_in_color
    <<3, 50, 98, 108, 117, 101, 3, 44, 50, 105, 110, 118, 97, 108, 105, 100>>,
    \* double_reset
    <<3, 50, 98, 108, 117, 101, 3, 110, 111, 110, 101, 3, 110, 111, 110, 101>>,
    \* unknown_color
    <<3, 49, 54, 116, 101, 120, 116>>
}

\* whether the reset sequence occurs in s
HasReset(s) ==
    \E i \in 1..(Len(s) - Len(Reset) + 1) : SubSeq(s, i, i + Len(Reset) - 1) = Reset

\* IRCatFilter::init(), an empty output vector, and the input still to be fed
FilterInit ==
    /\ input \in SeqsUpTo(FilterAlphabet, MaxFilterLen) \cup ColorInputs \cup TestInputs
    /\ inner = input
    /\ buffer = <<>>
    /\ pos = 0
    /\ state = InitState
    /\ in_color = FALSE
    /\ sink = <<>>
    /\ cbuf = <<>>
    /\ cap = 1
    /\ count = 0
    /\ pc = "filter"
    /\ result = "none"
    /\ error = "none"
    /\ faults = 0
    /\ obs = [kind |-> "none", started |-> FALSE]

\* filter(&[c], &mut buffer) for the next input byte c
FeedByte ==
    /\ pc = "filter"
    /\ inner # <<>>
    /\ \E c \in {Head(inner)} : \E f \in {Filter(state, in_color, <<c>>, buffer)} :
       \E emit \in {Drop(f.output, Len(buffer))} :
          /\ inner' = Tail(inner)
          /\ buffer' = f.output
          /\ state' = f.state
          /\ in_color' = f.in_color
          /\ pc' = IF f.panic THEN "done" ELSE "filter"
          /\ result' = IF f.panic THEN "panic" ELSE result
          /\ obs' = [kind |-> "step", c |-> c, emit |-> emit, was |-> in_color,
                     from |-> state, panic |-> f.panic,
                     started |-> IF HasReset(emit) THEN FALSE
                                 ELSE IF state.tag = "Start" /\ IsDigit(c) THEN TRUE
                                 ELSE obs.started,
                     startedBefore |-> obs.started]
    /\ UNCHANGED <<input, pos, sink, cbuf, cap, count, error, faults>>

SpecFilter == FilterInit /\ [][FeedByte]_vars

\* ============================================================ properties
IsPrefix(a, b) == Len(a) <= Len(b) /\ a = Take(b, Len(a))

Range(s) == {s[i] : i \in 1..Len(s)}

\* the translation of the whole input by one filter call from the initial state
\* (what a source that delivers the input as a single chunk makes the filter do)
Whole == Filter(InitState, FALSE, input, <<>>)

\* the bytes of the adapter's buffer not yet handed to the caller
Unconsumed(a) == IF a.pos >= Len(a.buffer) THEN <<>> ELSE Drop(a.buffer, a.pos)

\* C1: with no I/O error, however the source splits the input into non-empty
\* chunks, ircat ends with the outcome and the sink contents of the run that gets
\* the input as a single chunk (success with the whole translation, or an abort
\* with nothing written).
C1_ChunkIndependence ==
    (pc = "done" /\ faults = 0) =>
        /\ result = (IF Whole.panic THEN "panic" ELSE "Ok")
        /\ sink = (IF Whole.panic THEN <<>> ELSE Whole.output)

\* C2: a read into a non-empty slice returns 0 only when the underlying source's
\* fill returned an empty chunk.
C2_ReadZeroOnlyAtEof ==
    (obs.kind = "read" /\ obs.ret = "ok" /\ obs.n = 0) => obs.chunk = 0

\* C4: when the input holds a colour number outside 0..15, ircat never returns
\* success, under every chunking; and without I/O errors it aborts only then.
C4_AbortIffUnknownColor ==
    pc = "done" =>
        /\ (Whole.panic => result # "Ok")
        /\ ((result = "panic" /\ faults = 0) => Whole.panic)

\* C5: for an input without the introducer byte, under every chunking, the filter
\* stays in Normal with the span flag false, the sink always holds a prefix of the
\* input, and a successful run leaves the sink equal to the input byte for byte.
C5_Identity ==
    (ETX \notin Range(input)) =>
        /\ state = InitState
        /\ ~in_color
        /\ IsPrefix(sink, input)
        /\ ((pc = "done" /\ result = "Ok") => (sink = input /\ count = Len(input)))

\* C5 witness: a three-byte input with a newline, a comma and a digit whose last
\* byte arrived as a chunk of its own, all of it read.
C5_Witness ==
    /\ ETX \notin Range(input)
    /\ {NL, COMMA, 49} \subseteq Range(input)
    /\ obs.kind = "read" /\ obs.ret = "ok" /\ obs.chunk = 1
    /\ Len(obs.before.inner) = 1
    /\ sink \o cbuf = input

\* C6: the cursor never exceeds the buffer's length.
C6_CursorWithinBuffer == pos <= Len(buffer)

\* C7: a read whose refill failed delivers nothing and changes nothing: the filter
\* state, the underlying source and the bytes still owed to the caller are as before.
C7_FailedFillChangesNothing ==
    (obs.kind = "read" /\ obs.ret = "err") =>
        /\ obs.n = 0
        /\ state = obs.before.state
        /\ in_color = obs.before.in_color
        /\ inner = obs.before.inner
        /\ Unconsumed(Adapter) = Unconsumed(obs.before)

Last(s) == s[Len(s)]

EndsWith(s, t) == Len(t) <= Len(s) /\ SubSeq(s, Len(s) - Len(t) + 1, Len(s)) = t

\* C3: every newline that arrives while a span is active, in whatever parse
\* state, is written with the reset sequence immediately before it and leaves
\* the span flag false.
C3_NewlineResets ==
    (obs.kind = "step" /\ obs.c = NL /\ obs.was) =>
        (EndsWith(obs.emit, Reset \o <<NL>>) /\ ~in_color)

\* C9: the reset sequence is written only while the span flag is true, by a
\* non-digit in Start or a newline in Normal, once, followed by the triggering
\* byte, and clears the flag; a colour start lies between any two resets; a
\* non-digit in Start with no span active writes only itself; a digit in Start
\* writes nothing (no reset) and sets the flag.
C9_SpanClosedOnce ==
    obs.kind = "step" =>
        /\ HasReset(obs.emit) =>
              /\ obs.was /\ ~in_color
              /\ obs.startedBefore
              /\ \/ obs.from.tag = "Start" /\ ~IsDigit(obs.c)
                 \/ obs.from.tag = "Normal" /\ obs.c = NL
              /\ obs.emit = Reset \o <<obs.c>>
        /\ (obs.from.tag = "Start" /\ ~IsDigit(obs.c) /\ ~obs.was) => obs.emit = <<obs.c>>
        /\ (obs.from.tag = "Start" /\ IsDigit(obs.c)) => (obs.emit = <<>> /\ in_color)

\* C9 witness: a second introducer-then-non-digit after the span was already
\* closed (tests::double_reset): one reset in the output, only the byte written.
C9_Witness ==
    /\ obs.kind = "step"
    /\ obs.from.tag = "Start" /\ ~IsDigit(obs.c) /\ ~obs.was
    /\ HasReset(buffer)
    /\ ~obs.started

\* the table as the claim gives it, index = colour + 1
ClaimTable == <<
    <<55>>, <<56, 59, 53, 59, 50, 51, 53>>, <<52>>, <<50>>,
    <<49>>, <<56, 59, 53, 59, 53, 50>>, <<53>>, <<56, 59, 53, 59, 50, 48, 57>>,
    <<51>>, <<56, 59, 53, 59, 52, 55>>, <<54>>, <<54>>,
    <<56, 59, 53, 59, 53, 54>>, <<56, 59, 53, 59, 50, 48, 48>>,
    <<56, 59, 53, 59, 50, 52, 49>>, <<55>> >>

\* ESC [ 3 T(f) m ESC [ 4 T(b) m payload
ClaimOutput(f, b, p) ==
    <<ESC, 91, 51>> \o ClaimTable[f + 1] \o <<109>>
    \o <<ESC, 91, 52>> \o ClaimTable[b + 1] \o <<109>> \o <<p>>

\* the filter has processed the whole input without panicking
Fed == pc = "filter" /\ inner = <<>>

\* C10 as stated: for every f, b in 0..15 in one or two digits and every
\* non-digit payload byte, the output is the two colour sequences and the payload.
C10_AnyPayload ==
    (inner = <<>> /\ Len(input) >= 5 /\ Last(input) \in Payloads) =>
        \A f \in ColorForms, b \in ColorForms :
            input = ColorInput(f, b, Last(input)) =>
                (pc = "filter" /\ buffer = ClaimOutput(f[1], b[1], Last(input)))

\* C10 amended: the same, for a payload byte that, when b is written with two
\* digits, is also neither a newline nor the introducer.
C10_ColorPair ==
    (inner = <<>> /\ Len(input) >= 5 /\ Last(input) \in Payloads) =>
        \A f \in ColorForms, b \in ColorForms :
            (input = ColorInput(f, b, Last(input))
                /\ (b[2] = 2 => Last(input) \notin {NL, ETX})) =>
                (pc = "filter" /\ buffer = ClaimOutput(f[1], b[1], Last(input)))

\* C10 witness: introducer 1 3 , 0 7 a has been translated.
C10_Witness ==
    /\ input = ColorInput(<<13, 2>>, <<7, 2>>, 97)
    /\ Fed
    /\ Len(buffer) = 23

\* ESC [ 3|4 T(n) m with T the table as the claims give it
ClaimColor(foreground, n) ==
    <<ESC, 91, IF foreground THEN 51 ELSE 52>> \o ClaimTable[n + 1] \o <<109>>

\* C12: a colour number takes at most two digits. The digit held by Foreground1
\* and Background1 is 0..9; a second digit c makes the number d*10 + c, computed
\* within 8 bits, in 0..99, and the sequence for it is written (or the filter
\* panics, for 16..99); a digit after two foreground digits, or after a two-digit
\* background, is written as text.
C12_AtMostTwoDigits ==
    /\ state.tag \in {"Foreground1", "Background1"} => state.d \in 0..9
    /\ (obs.kind = "step" /\ IsDigit(obs.c)) =>
        LET n == obs.from.d * 10 + obs.c - Digit0 IN
        /\ obs.from.tag \in {"Foreground1", "Background1"} =>
              /\ obs.from.d * 10 + obs.c <= 255
              /\ n \in 0..99
              /\ obs.panic <=> n > 15
              /\ ~obs.panic =>
                    /\ obs.emit = ClaimColor(obs.from.tag = "Foreground1", n)
                    /\ state.tag = (IF obs.from.tag = "Foreground1"
                                    THEN "Foreground2" ELSE "Normal")
        /\ obs.from.tag \in {"Foreground2", "Normal"} =>
              (obs.emit = <<obs.c>> /\ state = InitState /\ ~obs.panic)

\* C12 witness: a third digit after two foreground digits was written as text
\* (tests::number_following gets here).
C12_Witness ==
    /\ obs.kind = "step" /\ obs.from.tag = "Foreground2" /\ IsDigit(obs.c)
    /\ EndsWith(buffer, ClaimColor(TRUE, 0) \o <<obs.c>>)

\* C13: a comma not followed by a digit is text. A non-digit in Comma writes the
\* comma and the byte, nothing else, and returns to Normal with the span flag as
\* it was; a comma right after the introducer is written as text (after the
\* reset, when a span was active) with no colour sequence, and the digits that
\* follow it in Normal are written as text.
C13_LiteralComma ==
    obs.kind = "step" =>
        /\ (obs.from.tag = "Comma" /\ ~IsDigit(obs.c)) =>
              (obs.emit = <<COMMA, obs.c>> /\ state = InitState /\ in_color = obs.was)
        /\ (obs.from.tag = "Start" /\ obs.c = COMMA) =>
              /\ obs.emit = (IF obs.was THEN Reset ELSE <<>>) \o <<COMMA>>
              /\ state = InitState /\ ~in_color
        /\ (obs.from.tag = "Normal" /\ IsDigit(obs.c)) =>
              (obs.emit = <<obs.c>> /\ state = InitState)

\* C13 witness: a foreground number, a comma and a letter.
C13_Witness ==
    /\ obs.kind = "step" /\ obs.from.tag = "Comma" /\ obs.c = 97
    /\ Len(buffer) > 2

\* C16: outside Normal, a byte that is no digit and no comma where a comma is
\* expected (Foreground1, Foreground2) is written unchanged as the last byte of
\* what the step writes, and the machine is back in Normal: the introducer
\* included. Start is entered only by an introducer in Normal, which writes
\* nothing.
C16_IntroducerOnlyInNormal ==
    obs.kind = "step" =>
        /\ (/\ obs.from.tag # "Normal"
            /\ ~IsDigit(obs.c)
            /\ ~(obs.c = COMMA /\ obs.from.tag \in {"Foreground1", "Foreground2"})) =>
              /\ ~obs.panic
              /\ obs.emit # <<>> /\ Last(obs.emit) = obs.c
              /\ state = InitState
        /\ (obs.from.tag = "Normal" /\ obs.c = ETX) =>
              (obs.emit = <<>> /\ state.tag = "Start")
        /\ state.tag = "Start" => (obs.from.tag = "Normal" /\ obs.c = ETX)

\* C16 witness: an introducer arrived in Background1 and was written as a byte.
C16_Witness ==
    /\ obs.kind = "step" /\ obs.from.tag = "Background1" /\ obs.c = ETX
    /\ Last(buffer) = ETX

\* ------------------------------------------- the adapter under any caller
\* A caller that makes any sequence of read, fill_buf and consume calls. `sink`
\* holds the bytes handed to it: those read returned and those a consume moved
\* the cursor over.

\* the amounts the caller passes to consume (an overflowing call counts against
\* MaxFaults, which keeps the runs finite)
Amounts == (0..MaxBuf) \cup {UsizeMax}

\* the bytes the caller's streams are drawn from: introducer, '1', 'a'
ClientAlphabet == {ETX, 49, 97}

ClientInit ==
    /\ input \in SeqsUpTo(ClientAlphabet, MaxLen)
    /\ inner = input
    /\ buffer = <<>>
    /\ pos = 0
    /\ state = InitState
    /\ in_color = FALSE
    /\ sink = <<>>
    /\ cbuf = <<>>
    /\ cap = 1
    /\ count = 0
    /\ pc = "client"
    /\ result = "none"
    /\ error = "none"
    /\ faults = 0
    /\ obs = [kind |-> "none"]

\* a call that panicked: the adapter is gone
Panicked ==
    /\ pc' = "done"
    /\ result' = "panic"
    /\ UNCHANGED <<inner, buffer, pos, state, in_color, sink>>

\* BufFilter::read(buf) with buf.len() = n
ClientRead ==
    /\ pc = "client"
    /\ \E n \in 0..MaxBuf, o \in FillOutcomes(Adapter, faults < MaxFaults) :
         \E r \in {Read(Adapter, n, o)} :
         /\ (o.kind = "err" => r.asked)
         /\ IF r.ret = "panic"
            THEN Panicked
            ELSE /\ SetAdapter(r.a)
                 /\ sink' = sink \o r.data
                 /\ UNCHANGED <<pc, result>>
         /\ faults' = IF r.ret = "err" THEN faults + 1 ELSE faults
         /\ obs' = [kind |-> "read", ret |-> r.ret, e |-> r.e, n |-> Len(r.data),
                    want |-> n, chunk |-> r.chunk, asked |-> r.asked, before |-> Adapter]
    /\ UNCHANGED <<input, cbuf, cap, count, error>>

\* BufFilter::fill_buf(); data: the slice it returns, &self.buffer[self.pos..]
ClientFillBuf ==
    /\ pc = "client"
    /\ \E o \in FillOutcomes(Adapter, faults < MaxFaults) :
         \E r \in {FillBuf(Adapter, o)} :
         /\ (o.kind = "err" => r.asked)
         /\ IF r.ret = "panic"
            THEN Panicked
            ELSE /\ SetAdapter(r.a)
                 /\ UNCHANGED <<pc, result, sink>>
         /\ faults' = IF r.ret = "err" THEN faults + 1 ELSE faults
         /\ obs' = [kind |-> "fill_buf", ret |-> r.ret, e |-> r.e,
                    data |-> IF r.ret = "ok" THEN Drop(r.a.buffer, r.a.pos) ELSE <<>>,
                    chunk |-> r.chunk, asked |-> r.asked, before |-> Adapter]
    /\ UNCHANGED <<input, cbuf, cap, count, error>>

\* BufFilter::consume(amt); on overflow of `self.pos + amt` either build's outcome
ClientConsume ==
    /\ pc = "client"
    /\ \E amt \in Amounts, build \in {"debug", "release"} :
         /\ (build = "debug" => ConsumeOverflows(Adapter, amt))
         /\ (ConsumeOverflows(Adapter, amt) => faults < MaxFaults)
         /\ faults' = IF ConsumeOverflows(Adapter, amt) THEN faults + 1 ELSE faults
         /\ IF build = "debug"
            THEN Panicked
            ELSE LET a == Consume(Adapter, amt) IN
                 /\ SetAdapter(a)
                 /\ sink' = sink \o SubSeq(buffer, pos + 1, a.pos)
                 /\ UNCHANGED <<pc, result>>
         /\ obs' = [kind |-> "consume", ret |-> IF build = "debug" THEN "panic" ELSE "ok",
                    amt |-> amt, before |-> Adapter]
    /\ UNCHANGED <<input, cbuf, cap, count, error>>

ClientNext == ClientRead \/ ClientFillBuf \/ ClientConsume

SpecClient == ClientInit /\ [][ClientNext]_vars

\* the part of the input the underlying source has been told is consumed
Consumed == Take(input, Len(input) - Len(inner))

\* C11: consume(amount) sets the cursor to min(old cursor + amount, length) for
\* every amount up to usize::MAX: it does not fail, and the cursor does not
\* exceed the length or move backwards.
C11_ConsumeClamps ==
    obs.kind = "consume" =>
        /\ obs.ret = "ok"
        /\ pos = Min(obs.before.pos + obs.amt, Len(obs.before.buffer))
        /\ pos >= obs.before.pos
        /\ pos <= Len(buffer)

\* C14: whatever calls were made, the bytes handed to the caller followed by the
\* bytes still buffered are the translation of the chunks consumed so far: no
\* byte lost, duplicated or reordered.
C14_DeliveredIsTranslation ==
    pc = "client" =>
        sink \o Unconsumed(Adapter) = Filter(InitState, FALSE, Consumed, <<>>).output

\* C15: while unconsumed bytes remain, fill_buf changes nothing, does not ask the
\* underlying source and returns exactly the unconsumed bytes; a read that the
\* buffered bytes satisfy does not refill either; and a call takes at most one
\* chunk from the underlying source.
C15_RefillOnlyWhenExhausted ==
    /\ (obs.kind = "fill_buf" /\ Unconsumed(obs.before) # <<>>) =>
          /\ obs.ret = "ok" /\ ~obs.asked
          /\ Adapter = obs.before
          /\ obs.data = Unconsumed(obs.before)
    /\ (obs.kind = "read" /\ obs.ret # "panic"
            /\ Len(Unconsumed(obs.before)) >= obs.want) =>
          /\ obs.ret = "ok" /\ ~obs.asked
          /\ obs.n = obs.want
          /\ [Adapter EXCEPT !.pos = obs.before.pos] = obs.before
    /\ (obs.kind \in {"read", "fill_buf"} /\ pc = "client") =>
          Len(obs.before.inner) - Len(inner)
              = (IF obs.ret = "ok" /\ obs.chunk >= 0 THEN obs.chunk ELSE 0)

\* C15 witness: fill_buf was called with part of the buffer consumed and part not.
C15_Witness ==
    /\ obs.kind = "fill_buf" /\ ~obs.asked
    /\ obs.before.pos > 0
    /\ Len(obs.data) > 0
    /\ obs.data = Unconsumed(Adapter)

\* C17: after a refill the buffer holds the translation of the one chunk the
\* refill took, nothing older, and is at most 12 times as long as the chunk.
C17_BufferIsOneChunk ==
    (obs.kind \in {"read", "fill_buf"} /\ obs.ret = "ok" /\ obs.chunk >= 0) =>
        /\ buffer = Filter(obs.before.state, obs.before.in_color,
                           Take(obs.before.inner, obs.chunk), <<>>).output
        /\ Len(buffer) <= 12 * obs.chunk

\* C17 witness: a refill took a one-byte chunk and its translation is 12 bytes.
C17_Witness ==
    /\ obs.kind \in {"read", "fill_buf"} /\ obs.ret = "ok" /\ obs.chunk = 1
    /\ Len(buffer) = 12

\* ------------------------------------------------ the filter, piece by piece
\* filter called on consecutive pieces of the input, empty pieces included, with
\* one output vector (buffer) and the state carried from call to call
PiecesInit ==
    /\ input \in SeqsUpTo(FilterAlphabet, MaxFilterLen) \cup TestInputs
    /\ inner = input
    /\ buffer = <<>>
    /\ pos = 0
    /\ state = InitState
    /\ in_color = FALSE
    /\ sink = <<>>
    /\ cbuf = <<>>
    /\ cap = 1
    /\ count = 0
    /\ pc = "pieces"
    /\ result = "none"
    /\ error = "none"
    /\ faults = 0
    /\ obs = [kind |-> "none"]

\* filter(piece, &mut buffer) for the next k bytes of the input
FeedPiece ==
    /\ pc = "pieces"
    /\ \E k \in 0..Len(inner) :
       \E f \in {Filter(state, in_color, Take(inner, k), buffer)} :
          /\ inner' = Drop(inner, k)
          /\ buffer' = f.output
          /\ state' = f.state
          /\ in_color' = f.in_color
          /\ pc' = IF f.panic THEN "done" ELSE "pieces"
          /\ result' = IF f.panic THEN "panic" ELSE result
          /\ obs' = [kind |-> "piece", k |-> k, emit |-> Drop(f.output, Len(buffer)),
                     was |-> in_color, from |-> state, panic |-> f.panic]
    /\ UNCHANGED <<input, pos, sink, cbuf, cap, count, error, faults>>

SpecPieces == PiecesInit /\ [][FeedPiece]_vars

\* one filter call on everything fed so far
WholeFed == Filter(InitState, FALSE, Consumed, <<>>)

\* C18: however the bytes fed so far were split into pieces, the output, the
\* parse state and the span flag are those of one filter call on all of them
\* from the initial state (and a piece panics exactly when that call does); an
\* empty piece writes nothing and changes no state.
C18_PiecewiseEqualsWhole ==
    /\ pc = "pieces" =>
          /\ ~WholeFed.panic
          /\ buffer = WholeFed.output
          /\ state = WholeFed.state
          /\ in_color = WholeFed.in_color
    /\ result = "panic" => WholeFed.panic
    /\ (obs.kind = "piece" /\ obs.k = 0) =>
          (obs.emit = <<>> /\ state = obs.from /\ in_color = obs.was /\ ~obs.panic)

\* C18 witness: tests::double_reset fed in two pieces, the first ending between
\* the colour digit and the next introducer.
C18_Witness ==
    /\ pc = "pieces" /\ inner = <<>> /\ Len(input) = 4
    /\ obs.kind = "piece" /\ obs.k = 2 /\ obs.from.tag = "Foreground1"
    /\ HasReset(buffer)

C20_Terminates == <>(pc = "done")

\* C20 witness: the loop has returned after taking a longest input to its end
\* and writing translated bytes.
C20_Witness ==
    /\ pc = "done" /\ inner = <<>> /\ Len(input) = MaxLen
    /\ count > 0 /\ count = Len(sink)

====
